---- MODULE Spec2Model ----
\* A model of src/formatting/formattable.rs: the Formattable implementations for
\* FormatItem, &[FormatItem], Vec<FormatItem> and the well-known format Rfc3339.
\* Bytes are one-character strings, byte strings are sequences of them.
EXTENDS Integers, Sequences, FiniteSets, TLC

VARIABLES output, call, result

vars == <<output, call, result>>

\* ---------------------------------------------------------------- bounds

\* A short-writing sink accepts at most 0..MaxChunk bytes per write call.
MaxChunk == 1
\* A failing sink fails its write call number 0..MaxFail (counted from 0).
MaxFail == 2
\* The longest flat sequence of format items.
MaxLen == 2

\* ---------------------------------------------------------------- values

None == <<>>
Some(v) == <<v>>
IsSome(o) == Len(o) = 1
Unwrap(o) == o[1]

Ok(n) == [ok |-> TRUE, n |-> n, err |-> "none"]
Err(e) == [ok |-> FALSE, n |-> 0, err |-> e]

Min(a, b) == IF a < b THEN a ELSE b
Abs(a) == IF a < 0 THEN -a ELSE a

\* ---------------------------------------------------------------- the sink

\* The state of an `impl io::Write`: the bytes it has accepted, how many bytes it
\* accepts per write call (-1: all of them), the index of the write call that
\* fails (-1: none), the number of write calls it has received, and the record
\* of what happened to it, in order: the write calls with their results, and the
\* format items entered and left.
NewOutput(buf, limit, failAt) ==
    [buf |-> buf, limit |-> limit, failAt |-> failAt, calls |-> 0, log |-> <<>>]

WriteEvent(bytes, res) == [ev |-> "write", bytes |-> bytes, path |-> <<>>, res |-> res]
EnterEvent(path) == [ev |-> "enter", bytes |-> <<>>, path |-> path, res |-> Ok(0)]
ExitEvent(path, res) == [ev |-> "exit", bytes |-> <<>>, path |-> path, res |-> res]

Logged(out, event) == [out EXCEPT !.log = Append(@, event)]

\* The bytes of `bytes` a write call accepts when it does not fail.
Accepted(out, bytes) ==
    IF out.limit = -1 THEN Len(bytes) ELSE Min(Len(bytes), out.limit)

\* The sink after a write call that returned `res`, with that result.
Written(out, bytes, res) ==
    [out |-> [out EXCEPT !.calls = @ + 1,
                         !.log = Append(@, WriteEvent(bytes, res)),
                         !.buf = @ \o SubSeq(bytes, 1, res.n)],
     res |-> res]

\* io::Write::write: Ok(n) with n <= Len(bytes) bytes appended, or an error.
Write(out, bytes) ==
    Written(out, bytes,
            IF out.failAt # -1 /\ out.calls >= out.failAt
            THEN Err("StdIo") ELSE Ok(Accepted(out, bytes)))

\* `n + r?`: the count n added to the count of r, or the error of r.
AddCount(n, r) == IF r.res.ok THEN [out |-> r.out, res |-> Ok(n + r.res.n)] ELSE r

\* io::Write::write_all: write until every byte is accepted; a write that accepts
\* nothing is an error (WriteZero). WriteAllRest goes on after the write `w`.
RECURSIVE WriteAll(_, _)
WriteAllRest(w, bytes) ==
    IF ~w.res.ok THEN w
    ELSE IF w.res.n = 0 THEN [out |-> w.out, res |-> Err("StdIo")]
    ELSE AddCount(w.res.n, WriteAll(w.out, SubSeq(bytes, w.res.n + 1, Len(bytes))))

WriteAll(out, bytes) ==
    IF bytes = <<>> THEN [out |-> out, res |-> Ok(0)]
    ELSE WriteAllRest(Write(out, bytes), bytes)

\* ---------------------------------------------------------------- format_number

DigitChar == <<"0", "1", "2", "3", "4", "5", "6", "7", "8", "9">>

\* The decimal digits of a natural number, most significant first (itoa).
RECURSIVE Digits(_)
Digits(v) ==
    IF v < 10 THEN <<DigitChar[v + 1]>>
    ELSE Append(Digits(v \div 10), DigitChar[(v % 10) + 1])

NumDigits(v) == Len(Digits(v))

\* `count` writes of the single byte '0', each `bytes += output.write(&[b'0'])?`.
\* WriteZerosRest goes on after the write `w`.
RECURSIVE WriteZeros(_, _, _)
WriteZerosRest(w, count, bytes) ==
    IF ~w.res.ok THEN w ELSE WriteZeros(w.out, count - 1, bytes + w.res.n)

WriteZeros(out, count, bytes) ==
    IF count <= 0 THEN [out |-> out, res |-> Ok(bytes)]
    ELSE WriteZerosRest(Write(out, <<"0">>), count, bytes)

\* The digits of the number, after the padding `pad`.
WriteDigits(pad, value) ==
    IF ~pad.res.ok THEN pad ELSE AddCount(pad.res.n, WriteAll(pad.out, Digits(value)))

\* format_number(output, value, Padding::Zero, width): zeros up to the width,
\* then the number's digits.
FormatNumber(out, value, width) ==
    WriteDigits(WriteZeros(out, width - NumDigits(value), 0), value)

\* ---------------------------------------------------------------- Date, Time, UtcOffset

Date(y, m, d) == [year |-> y, month |-> m, day |-> d]
Time(h, m, s, n) == [hour |-> h, minute |-> m, second |-> s, nanosecond |-> n]
UtcOffset(h, m, s) == [hours |-> h, minutes |-> m, seconds |-> s]

UTC == UtcOffset(0, 0, 0)
whole_hours(offset) == offset.hours
minutes_past_hour(offset) == offset.minutes
seconds_past_minute(offset) == offset.seconds
is_negative(offset) == offset.hours < 0 \/ offset.minutes < 0 \/ offset.seconds < 0

\* ---------------------------------------------------------------- Rfc3339

\* One statement `bytes += ...?` of Rfc3339::format_into: a format_number call
\* or a write of one byte.
Num(value, width) == [op |-> "num", value |-> value, width |-> width, byte |-> ""]
Byte(b) == [op |-> "byte", value |-> 0, width |-> 0, byte |-> b]

\* Trim with the width of its third arm one too large.
TrimWideThirdArm(nanos) ==
    IF nanos % 10 # 0 THEN <<nanos, 9>>
    ELSE IF (nanos \div 10) % 10 # 0 THEN <<nanos \div 10, 8>>
    ELSE IF (nanos \div 100) % 10 # 0 THEN <<nanos \div 100, 8>>
    ELSE IF (nanos \div 1000) % 10 # 0 THEN <<nanos \div 1000, 6>>
    ELSE IF (nanos \div 10000) % 10 # 0 THEN <<nanos \div 10000, 5>>
    ELSE IF (nanos \div 100000) % 10 # 0 THEN <<nanos \div 100000, 4>>
    ELSE IF (nanos \div 1000000) % 10 # 0 THEN <<nanos \div 1000000, 3>>
    ELSE IF (nanos \div 10000000) % 10 # 0 THEN <<nanos \div 10000000, 2>>
    ELSE <<nanos \div 100000000, 1>>

\* The match on time.nanosecond(): the value and the width of the fraction.
Trim(nanos) ==
    IF nanos % 10 # 0 THEN <<nanos, 9>>
    ELSE IF (nanos \div 10) % 10 # 0 THEN <<nanos \div 10, 8>>
    ELSE IF (nanos \div 100) % 10 # 0 THEN <<nanos \div 100, 7>>
    ELSE IF (nanos \div 1000) % 10 # 0 THEN <<nanos \div 1000, 6>>
    ELSE IF (nanos \div 10000) % 10 # 0 THEN <<nanos \div 10000, 5>>
    ELSE IF (nanos \div 100000) % 10 # 0 THEN <<nanos \div 100000, 4>>
    ELSE IF (nanos \div 1000000) % 10 # 0 THEN <<nanos \div 1000000, 3>>
    ELSE IF (nanos \div 10000000) % 10 # 0 THEN <<nanos \div 10000000, 2>>
    ELSE <<nanos \div 100000000, 1>>

\* DateTimeSteps with the day written before the month.
DateTimeStepsDayFirst(date, time) ==
    << Num(date.year, 4), Byte("-"), Num(date.day, 2), Byte("-"), Num(date.month, 2),
       Byte("T"), Num(time.hour, 2), Byte(":"), Num(time.minute, 2), Byte(":"),
       Num(time.second, 2) >>

\* Lines 127-137: the date and the time of day.
DateTimeSteps(date, time) ==
    << Num(date.year, 4), Byte("-"), Num(date.month, 2), Byte("-"), Num(date.day, 2),
       Byte("T"), Num(time.hour, 2), Byte(":"), Num(time.minute, 2), Byte(":"),
       Num(time.second, 2) >>

\* Lines 139-154: the fraction, when there is one.
FractionSteps(time) ==
    IF time.nanosecond # 0
    THEN << Byte("."), Num(Trim(time.nanosecond)[1], Trim(time.nanosecond)[2]) >>
    ELSE << >>

\* OffsetSteps taking the sign from the hours alone.
OffsetStepsSignOfHours(offset) ==
    IF offset = UTC
    THEN << Byte("Z") >>
    ELSE << Byte(IF whole_hours(offset) < 0 THEN "-" ELSE "+"),
            Num(Abs(whole_hours(offset)), 2), Byte(":"),
            Num(Abs(minutes_past_hour(offset)), 2) >>

\* Lines 156-173: 'Z' and the early return, or the sign, the hours and the minutes.
OffsetSteps(offset) ==
    IF offset = UTC
    THEN << Byte("Z") >>
    ELSE << Byte(IF is_negative(offset) THEN "-" ELSE "+"),
            Num(Abs(whole_hours(offset)), 2), Byte(":"),
            Num(Abs(minutes_past_hour(offset)), 2) >>

\* One statement: format_number, or the write of a byte.
Step(s, out) ==
    IF s.op = "num" THEN FormatNumber(out, s.value, s.width) ELSE Write(out, <<s.byte>>)

\* The statements in order, each returning at its first error (the `?`) and
\* adding its count to `bytes`. RunRest goes on after the statement that gave r.
RECURSIVE RunSteps(_, _, _)
RunRest(steps, r, bytes) ==
    IF ~r.res.ok THEN r ELSE RunSteps(steps, r.out, bytes + r.res.n)

RunSteps(steps, out, bytes) ==
    IF steps = <<>> THEN [out |-> out, res |-> Ok(bytes)]
    ELSE RunRest(Tail(steps), Step(Head(steps), out), bytes)

\* YearInRange with the upper end included.
YearInRangeInclusive(year) == 0 <= year /\ year <= 10000

\* Line 120: the years RFC 3339 can write.
YearInRange(year) == 0 <= year /\ year < 10000

\* HasOffsetSeconds blind to negative seconds.
HasOffsetSecondsPositive(offset) == seconds_past_minute(offset) > 0

\* Line 123: an offset RFC 3339 cannot write.
HasOffsetSeconds(offset) == seconds_past_minute(offset) # 0

\* Rfc3339::format_into looking at the year as soon as it has the date.
Rfc3339FormatIntoYearFirst(out, date, time, offset) ==
    IF ~IsSome(date) THEN [out |-> out, res |-> Err("InsufficientTypeInformation")]
    ELSE IF ~YearInRange(Unwrap(date).year)
    THEN [out |-> out, res |-> Err("InvalidComponent(year)")]
    ELSE IF ~IsSome(time) THEN [out |-> out, res |-> Err("InsufficientTypeInformation")]
    ELSE IF ~IsSome(offset) THEN [out |-> out, res |-> Err("InsufficientTypeInformation")]
    ELSE IF HasOffsetSeconds(Unwrap(offset))
    THEN [out |-> out, res |-> Err("InvalidComponent(offset_second)")]
    ELSE RunSteps(DateTimeSteps(Unwrap(date), Unwrap(time)) \o FractionSteps(Unwrap(time))
                    \o OffsetSteps(Unwrap(offset)), out, 0)

\* Rfc3339::format_into checking the offset where it writes it, after the date
\* and the time.
Rfc3339FormatIntoInterleaved(out, date, time, offset) ==
    IF ~IsSome(date) THEN [out |-> out, res |-> Err("InsufficientTypeInformation")]
    ELSE IF ~IsSome(time) THEN [out |-> out, res |-> Err("InsufficientTypeInformation")]
    ELSE IF ~IsSome(offset) THEN [out |-> out, res |-> Err("InsufficientTypeInformation")]
    ELSE IF ~YearInRange(Unwrap(date).year)
    THEN [out |-> out, res |-> Err("InvalidComponent(year)")]
    ELSE LET r == RunSteps(DateTimeSteps(Unwrap(date), Unwrap(time))
                             \o FractionSteps(Unwrap(time)), out, 0)
         IN  IF ~r.res.ok THEN r
             ELSE IF HasOffsetSeconds(Unwrap(offset))
             THEN [out |-> r.out, res |-> Err("InvalidComponent(offset_second)")]
             ELSE RunSteps(OffsetSteps(Unwrap(offset)), r.out, r.res.n)

\* <Rfc3339 as Formattable>::format_into
Rfc3339FormatInto(out, date, time, offset) ==
    IF ~IsSome(date) THEN [out |-> out, res |-> Err("InsufficientTypeInformation")]
    ELSE IF ~IsSome(time) THEN [out |-> out, res |-> Err("InsufficientTypeInformation")]
    ELSE IF ~IsSome(offset) THEN [out |-> out, res |-> Err("InsufficientTypeInformation")]
    ELSE LET d == Unwrap(date)
             t == Unwrap(time)
             o == Unwrap(offset)
         IN  IF ~YearInRange(d.year)
             THEN [out |-> out, res |-> Err("InvalidComponent(year)")]
             ELSE IF HasOffsetSeconds(o)
             THEN [out |-> out, res |-> Err("InvalidComponent(offset_second)")]
             ELSE RunSteps(DateTimeSteps(d, t) \o FractionSteps(t) \o OffsetSteps(o), out, 0)

\* ---------------------------------------------------------------- FormatItem

Literal(bytes) == [tag |-> "Literal", bytes |-> bytes, component |-> "", items |-> <<>>]
Component(name) == [tag |-> "Component", bytes |-> <<>>, component |-> name, items |-> <<>>]
Compound(items) == [tag |-> "Compound", bytes |-> <<>>, component |-> "", items |-> items]

\* format_component(output, component, date, time, offset): the year of the date
\* and the hour of the time, zero-padded; an absent value is an error.
FormatComponent(out, component, date, time, offset) ==
    IF component = "year"
    THEN IF IsSome(date) THEN FormatNumber(out, Unwrap(date).year, 4)
         ELSE [out |-> out, res |-> Err("InsufficientTypeInformation")]
    ELSE IF IsSome(time) THEN FormatNumber(out, Unwrap(time).hour, 2)
         ELSE [out |-> out, res |-> Err("InsufficientTypeInformation")]

RECURSIVE ItemFormatInto(_, _, _, _, _, _)

\* SliceLoop with `bytes =` for `bytes +=`: the count of the last item alone.
RECURSIVE SliceLoopLastCount(_, _, _, _, _, _, _, _)
SliceLoopLastCount(items, k, out, bytes, date, time, offset, path) ==
    IF k > Len(items) THEN [out |-> out, res |-> Ok(bytes)]
    ELSE LET r == ItemFormatInto(items[k], out, date, time, offset, Append(path, k))
         IN  IF ~r.res.ok THEN r
             ELSE SliceLoopLastCount(items, k + 1, r.out, r.res.n, date, time, offset, path)

\* SliceLoop without the `?`: the items after a failed one are formatted too, and
\* the first error is returned at the end.
RECURSIVE SliceLoopKeepGoing(_, _, _, _, _, _, _, _)
SliceLoopKeepGoing(items, k, out, bytes, date, time, offset, path) ==
    IF k > Len(items) THEN [out |-> out, res |-> Ok(bytes)]
    ELSE LET r == ItemFormatInto(items[k], out, date, time, offset, Append(path, k))
             rest == SliceLoopKeepGoing(items, k + 1, r.out, bytes + r.res.n,
                                        date, time, offset, path)
         IN  IF ~r.res.ok THEN [out |-> rest.out, res |-> r.res] ELSE rest

\* Line 78, `bytes += item.format_into(output, date, time, offset)?`, for the
\* items from index k on: the loop of <&[FormatItem]>::format_into. SliceRest
\* goes on after item k, which gave r.
RECURSIVE SliceLoop(_, _, _, _, _, _, _, _)
SliceRest(items, k, r, bytes, date, time, offset, path) ==
    IF ~r.res.ok THEN r
    ELSE SliceLoop(items, k + 1, r.out, bytes + r.res.n, date, time, offset, path)

SliceLoop(items, k, out, bytes, date, time, offset, path) ==
    IF k > Len(items) THEN [out |-> out, res |-> Ok(bytes)]
    ELSE SliceRest(items, k,
                   ItemFormatInto(items[k], out, date, time, offset, Append(path, k)),
                   bytes, date, time, offset, path)

\* <&[FormatItem] as Formattable>::format_into
SliceFormatInto(items, out, date, time, offset, path) ==
    SliceLoop(items, 1, out, 0, date, time, offset, path)

\* <Vec<FormatItem> as Formattable>::format_into
VecFormatInto(items, out, date, time, offset, path) ==
    SliceFormatInto(items, out, date, time, offset, path)

\* Lines 58-62: the match on the item.
ItemMatch(item, out, date, time, offset, path) ==
    IF item.tag = "Literal" THEN Write(out, item.bytes)
    ELSE IF item.tag = "Component"
    THEN FormatComponent(out, item.component, date, time, offset)
    ELSE SliceFormatInto(item.items, out, date, time, offset, path)

\* The return of the item at `path` with r, put on record.
Exited(path, r) == [out |-> Logged(r.out, ExitEvent(path, r.res)), res |-> r.res]

\* <FormatItem as Formattable>::format_into. `path` is the position of the item
\* in the tree (the indices from the root), for the record of the evaluation.
ItemFormatInto(item, out, date, time, offset, path) ==
    Exited(path, ItemMatch(item, Logged(out, EnterEvent(path)), date, time, offset, path))

\* ---------------------------------------------------------------- inputs

Dates ==
    { Date(1970, 1, 1), Date(0, 12, 31), Date(9999, 12, 31), Date(2021, 10, 5),
      Date(10000, 1, 1), Date(-1, 6, 15) }

Times ==
    { Time(0, 0, 0, 0), Time(23, 59, 59, 999999999), Time(0, 0, 0, 120000000),
      Time(12, 30, 45, 100000000), Time(12, 30, 45, 123456780), Time(1, 2, 3, 1234500),
      Time(1, 2, 3, 500000), Time(1, 2, 3, 10000), Time(1, 2, 3, 1000),
      Time(9, 9, 9, 7000000), Time(9, 9, 9, 1) }

Offsets ==
    { UTC, UtcOffset(0, 30, 0), UtcOffset(0, -30, 0), UtcOffset(5, 30, 0),
      UtcOffset(-9, -30, 0), UtcOffset(1, 0, 0), UtcOffset(-1, 0, 0),
      UtcOffset(23, 59, 0), UtcOffset(0, 0, 1), UtcOffset(0, 0, -1),
      UtcOffset(-23, -59, -59), UtcOffset(1, 0, 30) }

Opt(S) == {None} \cup {Some(v) : v \in S}

\* The values a format description is applied to: each present or absent.
TreeInputs ==
    { <<None, None, None>>,
      <<Some(Date(1970, 1, 1)), None, None>>,
      <<None, Some(Time(12, 30, 45, 0)), Some(UTC)>>,
      <<Some(Date(2021, 10, 5)), Some(Time(1, 2, 3, 0)), Some(UtcOffset(1, 0, 0))>> }

SeqsUpTo(S, n) == UNION { [1..k -> S] : k \in 0..n }

Leaves == { Literal(<<"a", "b">>), Component("year") }
\* Leaves and Compounds of no, one or two leaves.
Items1 == Leaves \cup { Compound(s) : s \in SeqsUpTo(Leaves, 2) }
\* And Compounds of two of those: Compounds nested in Compounds.
Items2 == Items1 \cup { Compound(<<a, b>>) : a \in Items1, b \in Items1 }

\* The flat sequences: of leaves and of Compounds.
Slices == SeqsUpTo(Items1, MaxLen)

\* The sinks: one that accepts everything, the short-writing ones, the failing ones;
\* empty, or holding bytes already.
Outputs ==
    { NewOutput(buf, limit, failAt) :
        buf \in { <<>>, <<"#">> },
        limit \in {-1},
        failAt \in {-1} }
    \cup { NewOutput(buf, limit, -1) : buf \in { <<>>, <<"#">> }, limit \in 0..MaxChunk }
    \cup { NewOutput(buf, -1, failAt) : buf \in { <<>>, <<"#">> }, failAt \in 0..MaxFail }

\* ---------------------------------------------------------------- the calls

NoCall == [op |-> "none", fmt |-> <<>>, date |-> None, time |-> None, offset |-> None,
           before |-> <<>>]
NoResult == Err("none")

Called(op, fmt, date, time, offset) ==
    [op |-> op, fmt |-> fmt, date |-> date, time |-> time, offset |-> offset,
     before |-> output]

Init ==
    /\ output \in Outputs
    /\ call = NoCall
    /\ result = NoResult

\* The call returns r: the sink as the call left it, and the result.
Return(r) ==
    /\ output' = r.out
    /\ result' = r.res

Rfc3339Call ==
    /\ call.op = "none"
    /\ \E date \in Opt(Dates), time \in Opt(Times), offset \in Opt(Offsets) :
        /\ Return(Rfc3339FormatInto(output, date, time, offset))
        /\ call' = Called("Rfc3339", <<>>, date, time, offset)

ItemCall ==
    /\ call.op = "none"
    /\ \E item \in Items2, in \in TreeInputs :
        /\ Return(ItemFormatInto(item, output, in[1], in[2], in[3], <<>>))
        /\ call' = Called("FormatItem", <<item>>, in[1], in[2], in[3])

SliceCall ==
    /\ call.op = "none"
    /\ \E items \in Slices, in \in TreeInputs :
        /\ Return(SliceFormatInto(items, output, in[1], in[2], in[3], <<>>))
        /\ call' = Called("Slice", items, in[1], in[2], in[3])

VecCall ==
    /\ call.op = "none"
    /\ \E items \in Slices, in \in TreeInputs :
        /\ Return(VecFormatInto(items, output, in[1], in[2], in[3], <<>>))
        /\ call' = Called("Vec", items, in[1], in[2], in[3])

Next == Rfc3339Call \/ ItemCall \/ SliceCall \/ VecCall

Spec == Init /\ [][Next]_vars

\* ---------------------------------------------------------------- what the claims speak of

IsRfc3339 == call.op = "Rfc3339"
AllPresent == IsSome(call.date) /\ IsSome(call.time) /\ IsSome(call.offset)
\* The sink accepts every write in full.
AcceptsAll(out) == out.limit = -1 /\ out.failAt = -1

\* The bytes the call added to the sink.
Appended == SubSeq(output.buf, Len(call.before.buf) + 1, Len(output.buf))
\* The write calls the sink received, in order.
Writes == SelectSeq(output.log, LAMBDA e : e.ev = "write")
NoWrite == Writes = <<>> /\ output.buf = call.before.buf

RECURSIVE Pow10(_)
Pow10(k) == IF k = 0 THEN 1 ELSE 10 * Pow10(k - 1)

\* The decimal digit of n at 10^k.
DigitAt(n, k) == DigitChar[((n \div Pow10(k)) % 10) + 1]
\* n in exactly `width` decimal digits, most significant first.
Padded(n, width) == [i \in 1..width |-> DigitAt(n, width - i)]

RECURSIVE TrailingZeros(_)
TrailingZeros(n) == IF n % 10 # 0 THEN 0 ELSE 1 + TrailingZeros(n \div 10)

\* The fraction RFC 3339 asks for: the nine digits of the nanoseconds without
\* their trailing zeros, after a '.'; nothing for 0.
ExpectedFraction(n) ==
    IF n = 0 THEN <<>>
    ELSE <<".">> \o SubSeq(Padded(n, 9), 1, 9 - TrailingZeros(n))

TotalSeconds(o) == o.hours * 3600 + o.minutes * 60 + o.seconds

ExpectedSuffix(o) ==
    IF TotalSeconds(o) = 0 THEN <<"Z">>
    ELSE <<IF TotalSeconds(o) < 0 THEN "-" ELSE "+">>
         \o Padded(Abs(TotalSeconds(o)) \div 3600, 2) \o <<":">>
         \o Padded((Abs(TotalSeconds(o)) \div 60) % 60, 2)

ExpectedDateTime(d, t) ==
    Padded(d.year, 4) \o <<"-">> \o Padded(d.month, 2) \o <<"-">> \o Padded(d.day, 2)
    \o <<"T">> \o Padded(t.hour, 2) \o <<":">> \o Padded(t.minute, 2) \o <<":">>
    \o Padded(t.second, 2)

RECURSIVE Flatten(_)
Flatten(seqs) == IF seqs = <<>> THEN <<>> ELSE Head(seqs) \o Flatten(Tail(seqs))

\* ---------------------------------------------------------------- C1

\* C1: Rfc3339.format_into with the date, the time or the offset absent returns
\* InsufficientTypeInformation, whatever the present values are, and the sink has
\* received no write call and no byte.
C1_MissingValue ==
    (IsRfc3339 /\ ~AllPresent)
        => (result = Err("InsufficientTypeInformation") /\ NoWrite)

C1_Witness ==
    /\ IsRfc3339
    /\ IsSome(call.date) /\ Unwrap(call.date).year = 10000
    /\ call.time = None
    /\ IsSome(call.offset) /\ Unwrap(call.offset).seconds # 0
    /\ result = Err("InsufficientTypeInformation")
    /\ call.before.buf = <<"#">> /\ output.buf = <<"#">>

\* ---------------------------------------------------------------- C2

\* C2: with all three values present, a year outside [0, 10000) gives
\* InvalidComponent("year") for every time and offset; a year in 0..=9999 never
\* does, and year 9999 with offset seconds 0 on an always-accepting sink succeeds.
C2_YearRange ==
    (IsRfc3339 /\ AllPresent) =>
        LET year == Unwrap(call.date).year
        IN  /\ (year < 0 \/ year >= 10000) => result = Err("InvalidComponent(year)")
            /\ (0 <= year /\ year <= 9999) => result.err # "InvalidComponent(year)"
            /\ (year = 9999 /\ Unwrap(call.offset).seconds = 0 /\ AcceptsAll(call.before))
                   => result.ok

C2_Witness ==
    /\ IsRfc3339 /\ AllPresent
    /\ Unwrap(call.date).year = 10000
    /\ Unwrap(call.offset).seconds # 0
    /\ result = Err("InvalidComponent(year)")

\* ---------------------------------------------------------------- C3

\* C3, as claimed: with all three values present, an offset with seconds past the
\* minute gives InvalidComponent("offset_second") whatever the date and time are.
C3_AnyDate ==
    (IsRfc3339 /\ AllPresent /\ Unwrap(call.offset).seconds # 0)
        => result = Err("InvalidComponent(offset_second)")

\* C3, amended: with all three values present and the year in [0, 10000), an
\* offset with seconds past the minute gives InvalidComponent("offset_second")
\* whatever the time and the rest of the date are.
C3_YearInRange ==
    (/\ IsRfc3339 /\ AllPresent
     /\ Unwrap(call.offset).seconds # 0
     /\ 0 <= Unwrap(call.date).year /\ Unwrap(call.date).year < 10000)
        => result = Err("InvalidComponent(offset_second)")

C3_Witness ==
    /\ IsRfc3339 /\ AllPresent
    /\ Unwrap(call.offset).seconds < 0
    /\ Unwrap(call.date).year = 9999
    /\ result = Err("InvalidComponent(offset_second)")

\* ---------------------------------------------------------------- C4

\* C4: for nanoseconds n in 1..=999,999,999 the chosen (value, width) has
\* 1 <= width <= 9, value * 10^(9 - width) = n, value < 10^width and
\* value mod 10 # 0, and a successful call writes '.' and value in exactly width
\* digits after the seconds; for n = 0 it writes no '.' and no fraction digit.
C4_Fraction ==
    (IsRfc3339 /\ AllPresent) =>
        LET n == Unwrap(call.time).nanosecond
            value == Trim(n)[1]
            width == Trim(n)[2]
        IN  /\ n # 0 =>
                /\ 1 <= width /\ width <= 9
                /\ value * Pow10(9 - width) = n
                /\ value < Pow10(width)
                /\ value % 10 # 0
                /\ width = 9 - TrailingZeros(n)
            /\ (result.ok /\ n # 0) =>
                /\ SubSeq(Appended, 20, 20 + width) = <<".">> \o Padded(value, width)
                /\ SubSeq(Appended, 20, 20 + width) = ExpectedFraction(n)
                /\ Len(Appended) \in {19 + 1 + width + 1, 19 + 1 + width + 6}
            /\ (result.ok /\ n = 0) =>
                /\ \A i \in 1..Len(Appended) : Appended[i] # "."
                /\ Len(Appended) \in {19 + 1, 19 + 6}

C4_Witness ==
    /\ IsRfc3339 /\ AllPresent /\ result.ok
    /\ Unwrap(call.time).nanosecond = 120000000
    /\ Unwrap(call.offset) = UTC
    /\ SubSeq(Appended, 20, Len(Appended)) = <<".", "1", "2", "Z">>

\* ---------------------------------------------------------------- C5

\* C5: a successful Rfc3339.format_into ends its output with 'Z' alone when the
\* offset is zero, and otherwise with six bytes: '-' when the offset as a whole
\* is negative and '+' when not, the hours in two digits, ':', the minutes past
\* the hour in two digits; 'Z' is written if and only if the offset is UTC.
C5_OffsetSuffix ==
    (IsRfc3339 /\ AllPresent /\ result.ok) =>
        LET o == Unwrap(call.offset)
            n == Unwrap(call.time).nanosecond
            start == 19 + Len(ExpectedFraction(n)) + 1
            suffix == SubSeq(Appended, start, Len(Appended))
        IN  /\ suffix = ExpectedSuffix(o)
            /\ o = UTC => suffix = <<"Z">>
            /\ o # UTC =>
                /\ Len(suffix) = 6
                /\ suffix[1] = (IF is_negative(o) THEN "-" ELSE "+")
                /\ SubSeq(suffix, 2, 3) = Padded(Abs(o.hours), 2)
                /\ suffix[4] = ":"
                /\ SubSeq(suffix, 5, 6) = Padded(Abs(o.minutes), 2)
            /\ (Appended[Len(Appended)] = "Z") <=> (o = UTC)

C5_Witness ==
    /\ IsRfc3339 /\ AllPresent /\ result.ok
    /\ Unwrap(call.offset) = UtcOffset(0, -30, 0)
    /\ Unwrap(call.time).nanosecond = 0
    /\ SubSeq(Appended, 20, Len(Appended)) = <<"-", "0", "0", ":", "3", "0">>

\* ---------------------------------------------------------------- C6

\* C6: on success with a sink that accepts every write in full, the writes are,
\* in order, the year in 4 digits, '-', the month in 2, '-', the day in 2, 'T',
\* the hour in 2, ':', the minute in 2, ':', the second in 2, the fraction when
\* the nanoseconds are not 0, and the offset suffix; the sink holds that and the
\* count returned is its length; 1970-01-01 00:00:00.0 UTC gives
\* "1970-01-01T00:00:00Z" and 20.
C6_Emission ==
    (IsRfc3339 /\ AllPresent /\ result.ok /\ AcceptsAll(call.before)) =>
        LET d == Unwrap(call.date)
            t == Unwrap(call.time)
            o == Unwrap(call.offset)
            expected == ExpectedDateTime(d, t) \o ExpectedFraction(t.nanosecond)
                            \o ExpectedSuffix(o)
        IN  /\ Flatten([i \in 1..Len(Writes) |-> Writes[i].bytes]) = expected
            /\ output.buf = call.before.buf \o expected
            /\ result.n = Len(expected)
            /\ result.n = 19 + (IF t.nanosecond = 0 THEN 0 ELSE 1 + (9 - TrailingZeros(t.nanosecond)))
                             + (IF o = UTC THEN 1 ELSE 6)
            /\ (d = Date(1970, 1, 1) /\ t = Time(0, 0, 0, 0) /\ o = UTC) =>
                /\ Appended = << "1", "9", "7", "0", "-", "0", "1", "-", "0", "1", "T",
                                 "0", "0", ":", "0", "0", ":", "0", "0", "Z" >>
                /\ result.n = 20

C6_Witness ==
    /\ IsRfc3339 /\ result = Ok(20) /\ AcceptsAll(call.before)
    /\ call.date = Some(Date(1970, 1, 1))
    /\ call.time = Some(Time(0, 0, 0, 0))
    /\ call.offset = Some(UTC)
    /\ output.buf = << "#", "1", "9", "7", "0", "-", "0", "1", "-", "0", "1", "T",
                       "0", "0", ":", "0", "0", ":", "0", "0", "Z" >>

\* ---------------------------------------------------------------- C7

IsTree == call.op \in {"FormatItem", "Slice", "Vec"}
\* The children the call formats in a row: the items of the flat sequence, or
\* those of the Compound; none for a leaf.
Children ==
    IF call.op \in {"Slice", "Vec"} THEN call.fmt
    ELSE IF call.op = "FormatItem" THEN call.fmt[1].items
    ELSE <<>>
IsSequence ==
    call.op \in {"Slice", "Vec"} \/ (call.op = "FormatItem" /\ call.fmt[1].tag = "Compound")

\* C7: when A and B both format successfully, Compound([A, B]) appends the bytes
\* A appends and then the bytes B appends, and returns the sum of their counts;
\* the flat sequence [A, B] (slice or Vec) gives the bytes, the count and the
\* error outcome of Compound([A, B]); A and B may be Compounds themselves.
C7_Concatenation ==
    /\ (IsSequence /\ Len(Children) = 2) =>
        LET a == ItemFormatInto(Children[1], call.before, call.date, call.time,
                                call.offset, <<1>>)
            b == ItemFormatInto(Children[2], a.out, call.date, call.time,
                                call.offset, <<2>>)
            bytesA == SubSeq(a.out.buf, Len(call.before.buf) + 1, Len(a.out.buf))
            bytesB == SubSeq(b.out.buf, Len(a.out.buf) + 1, Len(b.out.buf))
        IN  (a.res.ok /\ b.res.ok) =>
                /\ result = Ok(a.res.n + b.res.n)
                /\ output.buf = call.before.buf \o bytesA \o bytesB
    /\ IsSequence =>
        LET compound == ItemFormatInto(Compound(Children), call.before, call.date,
                                       call.time, call.offset, <<>>)
            slice == SliceFormatInto(Children, call.before, call.date, call.time,
                                     call.offset, <<>>)
            vec == VecFormatInto(Children, call.before, call.date, call.time,
                                 call.offset, <<>>)
        IN  /\ output.buf = compound.out.buf /\ result = compound.res
            /\ output.buf = slice.out.buf /\ result = slice.res
            /\ output.buf = vec.out.buf /\ result = vec.res

C7_Witness ==
    /\ call.op = "FormatItem"
    /\ call.fmt = << Compound(<< Compound(<< Literal(<<"a", "b">>), Component("year") >>),
                               Literal(<<"a", "b">>) >>) >>
    /\ call.date = Some(Date(1970, 1, 1))
    /\ result = Ok(8)
    /\ output.buf = <<"#", "a", "b", "1", "9", "7", "0", "a", "b">>

\* ---------------------------------------------------------------- C8

RECURSIVE OnlyLiterals(_)
OnlyLiterals(item) ==
    \/ item.tag = "Literal"
    \/ /\ item.tag = "Compound"
       /\ \A i \in 1..Len(item.items) : OnlyLiterals(item.items[i])

RECURSIVE LiteralBytes(_)
LiteralBytes(item) ==
    IF item.tag = "Literal" THEN item.bytes
    ELSE Flatten([i \in 1..Len(item.items) |-> LiteralBytes(item.items[i])])

\* C8: a Literal(b), for every date, time and offset, all three absent included,
\* and every sink whose write does not fail, one that accepts fewer bytes than it
\* is offered included, writes the whole of b and returns len(b); a tree of
\* Literals alone writes the concatenation of its literals, left to right, and
\* never returns InsufficientTypeInformation.
C8_LiteralVerbatim ==
    (call.op = "FormatItem" /\ OnlyLiterals(call.fmt[1]) /\ call.before.failAt = -1) =>
        /\ Appended = LiteralBytes(call.fmt[1])
        /\ result = Ok(Len(LiteralBytes(call.fmt[1])))

\* ---------------------------------------------------------------- C9

IsPrefix(p, q) == Len(p) <= Len(q) /\ SubSeq(q, 1, Len(p)) = p
Failed(e) == ~e.res.ok
\* The path of the sibling before the item at `path`.
Before(path) == [path EXCEPT ![Len(path)] = @ - 1]

\* C9: the children of a Compound or of a flat sequence are formatted in index
\* order; when one returns an error that error is returned, no later child is
\* formatted, no further write reaches the sink, and the bytes written until then
\* stay in the sink.
C9_FailFast ==
    IsTree =>
        LET log == output.log
        IN  \* each child is entered once, after the one before it returned Ok
            /\ \A j \in 1..Len(log) :
                (log[j].ev = "enter" /\ log[j].path # <<>>) =>
                    /\ \A i \in 1..(j - 1) : ~(log[i].ev = "enter" /\ log[i].path = log[j].path)
                    /\ log[j].path[Len(log[j].path)] = 1
                        \/ \E i \in 1..(j - 1) :
                            /\ log[i].ev = "exit"
                            /\ log[i].path = Before(log[j].path)
                            /\ log[i].res.ok
            \* after the first error nothing happens but the return of that error
            /\ \A j \in 1..Len(log) :
                (Failed(log[j]) /\ \A i \in 1..(j - 1) : ~Failed(log[i])) =>
                    /\ result = log[j].res
                    /\ \A i \in (j + 1)..Len(log) :
                        /\ log[i].ev = "exit"
                        /\ log[i].res = log[j].res
                        /\ log[i - 1].ev = "exit" =>
                            /\ IsPrefix(log[i].path, log[i - 1].path)
                            /\ Len(log[i].path) < Len(log[i - 1].path)
            \* an error of the call is the error of the last child entered
            /\ (~result.ok /\ IsSequence /\ Children # <<>>) =>
                \E k \in 1..Len(Children) :
                    /\ \E j \in 1..Len(log) :
                        log[j] = ExitEvent(<<k>>, result)
                    /\ \A j \in 1..Len(log) :
                        (log[j].ev = "enter" /\ Len(log[j].path) = 1) => log[j].path[1] <= k
            \* what the sink accepted is still there
            /\ output.buf = call.before.buf
                \o Flatten([j \in 1..Len(Writes) |->
                              SubSeq(Writes[j].bytes, 1, Writes[j].res.n)])

C9_Witness ==
    /\ call.op = "Slice"
    /\ call.fmt = << Compound(<< Literal(<<"a", "b">>), Component("year") >>),
                     Literal(<<"a", "b">>) >>
    /\ call.date = None
    /\ result = Err("InsufficientTypeInformation")
    /\ output.buf = <<"#", "a", "b">>
    /\ Len(Writes) = 1

\* ---------------------------------------------------------------- C10

\* C10: Rfc3339.format_into makes every check (the presence of the date, the time
\* and the offset, the range of the year, the seconds of the offset) before its
\* first write: when it returns InsufficientTypeInformation or InvalidComponent
\* the sink is unchanged, and the only error returned after a write is IO.
C10_ValidationFirst ==
    IsRfc3339 =>
        /\ result.err \in {"InsufficientTypeInformation", "InvalidComponent(year)",
                           "InvalidComponent(offset_second)"} => NoWrite
        /\ (~result.ok /\ ~NoWrite) => result.err = "StdIo"

C10_Witness ==
    /\ IsRfc3339 /\ AllPresent
    /\ Unwrap(call.date).year = 2021
    /\ Unwrap(call.offset) = UtcOffset(1, 0, 30)
    /\ result = Err("InvalidComponent(offset_second)")
    /\ call.before.buf = <<"#">> /\ output.buf = <<"#">> /\ output.log = <<>>

====
